---- MODULE Spec2Model ----
(***************************************************************************)
(* Explicit grid resolution of taffy (src/compute/grid/explicit_grid.rs):  *)
(*   compute_explicit_grid_size_in_axis  the number of explicit tracks a   *)
(*                                       template yields in one axis       *)
(*   initialize_grid_tracks              the gutter/track sequence of one  *)
(*                                       axis                              *)
(* Lengths are f32 in the code. Every length drawn here is a small         *)
(* integer (and every percentage divides the sizes it is resolved against) *)
(* so f32 arithmetic on them is exact and is modelled on Int.              *)
(***************************************************************************)
EXTENDS Integers, Sequences, FiniteSets, TLC

VARIABLES
    overflow_checks,  \* build profile: TRUE = u16 overflow panics, FALSE = it wraps
    tracks,           \* the caller's Vec<GridTrack>
    counts,           \* TrackCounts handed to initialize_grid_tracks
    track_template,   \* the template handed to initialize_grid_tracks
    auto_tracks,      \* the grid-auto-rows/columns list
    gap,              \* the LengthPercentage gap handed to initialize_grid_tracks
    has_items,        \* the track_has_items closure, as the set of indices it is true of
    call,             \* initialize_grid_tracks on the sequence: "idle" (not called yet),
                      \* "done" (returned), "redone" (called again on its own output and
                      \* returned), "panicked"
    style,            \* the Style handed to compute_explicit_grid_size_in_axis
    axis,             \* the AbsoluteAxis handed to it
    result            \* its outcome: [status, value]

vars == <<overflow_checks, tracks, counts, track_template, auto_tracks, gap,
          has_items, call, style, axis, result>>

tracksVars == <<tracks, counts, track_template, auto_tracks, gap, has_items, call>>
sizeVars == <<style, axis, result>>

(***************************************************************************)
(* Bounds of the model.                                                    *)
(***************************************************************************)
MaxImplicit == 2
MaxExplicit == 2
MaxTemplateLen == 2
MaxAutoLen == 2

(***************************************************************************)
(* u16 arithmetic. An overflowing +, - or * panics when the build has      *)
(* overflow checks (debug profile) and wraps when it has not (release).    *)
(***************************************************************************)
U16_MOD == 65536

U16Wrap(x) == x % U16_MOD

U16Overflows(x) == x < 0 \/ x >= U16_MOD

\* The value of an `as u16` cast of a float known as the quotient num/den,
\* rounded down (up = FALSE) or up (up = TRUE): saturating, NaN to 0.
RECURSIVE FloatQuotientAsU16(_, _, _)
FloatQuotientAsU16(num, den, up) ==
    IF den = 0
    THEN IF num > 0 THEN U16_MOD - 1 ELSE 0
    ELSE IF den < 0
    THEN FloatQuotientAsU16(-num, -den, up)
    ELSE LET q == IF up THEN -((-num) \div den) ELSE num \div den
         IN  IF q < 0 THEN 0 ELSE IF q > U16_MOD - 1 THEN U16_MOD - 1 ELSE q

(***************************************************************************)
(* Style value types (crate::style). Option<f32> is [some, v].             *)
(***************************************************************************)
None == [some |-> FALSE, v |-> 0]
Some(x) == [some |-> TRUE, v |-> x]

Points(x) == [unit |-> "points", v |-> x]
Percent(p) == [unit |-> "percent", v |-> p]

\* LengthPercentage::resolve_or_zero(context)
resolve_or_zero(lp, context) ==
    IF lp.unit = "points" THEN lp.v
    ELSE IF context.some THEN (lp.v * context.v) \div 100 ELSE 0

\* MinTrackSizingFunction / MaxTrackSizingFunction
Fixed(lp) == [kind |-> "fixed", unit |-> lp.unit, v |-> lp.v]
Auto == [kind |-> "auto", unit |-> "none", v |-> 0]
MinContent == [kind |-> "min_content", unit |-> "none", v |-> 0]
Flex(f) == [kind |-> "flex", unit |-> "none", v |-> f]

\* NonRepeatedTrackSizingFunction = MinMax<Min.., Max..>
minmax(lo, hi) == [min |-> lo, max |-> hi]
points(x) == minmax(Fixed(Points(x)), Fixed(Points(x)))
percent(p) == minmax(Fixed(Percent(p)), Fixed(Percent(p)))
auto == minmax(Auto, Auto)
flex(f) == minmax(Auto, Flex(f))

\* TrackSizingFunction
Single(sf) == [tag |-> "Single", kind |-> "none", tracks |-> <<sf>>]
repeat(kind, sfs) == [tag |-> "AutoRepeat", kind |-> kind, tracks |-> sfs]
is_auto_repetition(def) == def.tag = "AutoRepeat"

\* NonRepeatedTrackSizingFunction::min_sizing_function / max_sizing_function
min_sizing_function(sf) == sf.min
max_sizing_function(sf) == sf.max

\* NonRepeatedTrackSizingFunction::has_fixed_component
has_fixed_component(sf) == sf.min.kind = "fixed" \/ sf.max.kind = "fixed"

\* MaxTrackSizingFunction::definite_value(parent_size)
definite_value(f, parent_size) ==
    IF f.kind # "fixed" THEN None
    ELSE IF f.unit = "points" THEN Some(f.v)
    ELSE IF parent_size.some THEN Some((f.v * parent_size.v) \div 100) ELSE None

(***************************************************************************)
(* GridTrack (super::types).                                               *)
(***************************************************************************)
GridTrackNew(lo, hi) ==
    [kind |-> "Track", min_track_sizing_function |-> lo,
     max_track_sizing_function |-> hi, is_collapsed |-> FALSE]

gutter(size) ==
    [kind |-> "Gutter", min_track_sizing_function |-> Fixed(size),
     max_track_sizing_function |-> Fixed(size), is_collapsed |-> FALSE]

collapse(t) ==
    [t EXCEPT !.is_collapsed = TRUE,
              !.min_track_sizing_function = Fixed(Points(0)),
              !.max_track_sizing_function = Fixed(Points(0))]

(***************************************************************************)
(* Iterator helpers: the first n items of list.cycle().skip(offset) and of *)
(* core::iter::repeat(x).                                                  *)
(***************************************************************************)
CycleSkipTake(list, offset, n) ==
    IF Len(list) = 0 THEN <<>>
    ELSE [i \in 1..n |-> list[((offset + i - 1) % Len(list)) + 1]]

RepeatTake(x, n) == [i \in 1..n |-> x]

Max2(a, b) == IF a >= b THEN a ELSE b
Min2(a, b) == IF a <= b THEN a ELSE b

(***************************************************************************)
(* create_implicit_tracks: one track and one gutter per item drawn from    *)
(* the iterator. items holds the `count` items the loop draws.             *)
(***************************************************************************)
create_implicit_tracks_GutterFirst(ts, items, g) ==
    ts \o [m \in 1..(2 * Len(items)) |->
             IF m % 2 = 0
             THEN GridTrackNew(min_sizing_function(items[m \div 2]),
                               max_sizing_function(items[m \div 2]))
             ELSE gutter(g)]

create_implicit_tracks(ts, items, g) ==
    ts \o [m \in 1..(2 * Len(items)) |->
             IF m % 2 = 1
             THEN GridTrackNew(min_sizing_function(items[(m + 1) \div 2]),
                               max_sizing_function(items[(m + 1) \div 2]))
             ELSE gutter(g)]

(***************************************************************************)
(* initialize_grid_tracks. An outcome is [status, tracks, idx]: status     *)
(* "ok", "panicked" (the call unwound, leaving what it had pushed) or      *)
(* "too_long" (a wrapped count of some 65 thousand tracks, which the       *)
(* action's guard keeps out of the model); idx is current_track_index.     *)
(***************************************************************************)
clear_Kept(ts) == ts

clear(ts) == <<>>

\* Lines 160-170: the negative implicit tracks.
negative_implicit_tracks(ts, cnt, autos, g) ==
    IF Len(autos) = 0
    THEN [status |-> "ok",
          tracks |-> create_implicit_tracks(ts, RepeatTake(auto, cnt.negative_implicit), g)]
    ELSE LET max_count == Max2(Len(autos), cnt.negative_implicit)
             min_count == Min2(Len(autos), cnt.negative_implicit)
         IN  IF min_count = 0
             THEN [status |-> "panicked", tracks |-> ts]   \* remainder by zero
             ELSE [status |-> "ok",
                   tracks |-> create_implicit_tracks(
                       ts, CycleSkipTake(autos, max_count % min_count, cnt.negative_implicit), g)]

auto_repeated_tracks_IndexFromZero(def, n, idx, g, items) ==
    LET defs == CycleSkipTake(def.tracks, 0, n)
        collapsed(j) == def.kind = "AutoFit" /\ ~((j - 1) \in items)
        track(j) == GridTrackNew(min_sizing_function(defs[j]), max_sizing_function(defs[j]))
    IN  [m \in 1..(2 * Len(defs)) |->
            IF m % 2 = 1
            THEN IF collapsed((m + 1) \div 2) THEN collapse(track((m + 1) \div 2))
                 ELSE track((m + 1) \div 2)
            ELSE IF collapsed(m \div 2) THEN collapse(gutter(g)) ELSE gutter(g)]

\* Lines 186-202: the tracks one AutoRepeat entry pushes, n of them, the first
\* at absolute index idx.
auto_repeated_tracks(def, n, idx, g, items) ==
    LET defs == CycleSkipTake(def.tracks, 0, n)
        collapsed(j) == def.kind = "AutoFit" /\ ~((idx + j - 1) \in items)
        track(j) == GridTrackNew(min_sizing_function(defs[j]), max_sizing_function(defs[j]))
    IN  [m \in 1..(2 * Len(defs)) |->
            IF m % 2 = 1
            THEN IF collapsed((m + 1) \div 2) THEN collapse(track((m + 1) \div 2))
                 ELSE track((m + 1) \div 2)
            ELSE IF collapsed(m \div 2) THEN collapse(gutter(g)) ELSE gutter(g)]

auto_repeated_track_count_WholeLen(cnt, template) ==
    cnt.explicit - U16Wrap(Len(template))

\* Line 186: counts.explicit - (track_template.len() as u16 - 1), a u16.
auto_repeated_track_count(cnt, template) ==
    cnt.explicit - (U16Wrap(Len(template)) - 1)

\* Lines 178-204: track_template.iter().for_each(...), from entry k on.
RECURSIVE for_each_track_sizing_function(_, _, _, _, _, _, _)
for_each_track_sizing_function(acc, k, cnt, template, g, items, checks) ==
    IF k > Len(template) \/ acc.status # "ok" THEN acc
    ELSE LET def == template[k] IN
         IF def.tag = "Single"
         THEN for_each_track_sizing_function(
                  [acc EXCEPT !.tracks = @ \o <<GridTrackNew(min_sizing_function(def.tracks[1]),
                                                             max_sizing_function(def.tracks[1])),
                                                gutter(g)>>,
                              !.idx = @ + 1],
                  k + 1, cnt, template, g, items, checks)
         ELSE LET diff == auto_repeated_track_count(cnt, template)
                  n == U16Wrap(diff)
              IN  IF U16Overflows(diff) /\ checks
                  THEN [acc EXCEPT !.status = "panicked"]
                  ELSE IF U16Overflows(diff) /\ Len(def.tracks) > 0
                  THEN [acc EXCEPT !.status = "too_long"]
                  ELSE LET pushed == auto_repeated_tracks(def, n, acc.idx, g, items)
                       IN  for_each_track_sizing_function(
                               [acc EXCEPT !.tracks = @ \o pushed,
                                           !.idx = @ + (Len(pushed) \div 2)],
                               k + 1, cnt, template, g, items, checks)

\* Lines 174-205: the explicit tracks.
explicit_tracks(acc, cnt, template, g, items, checks) ==
    IF cnt.explicit > 0
    THEN for_each_track_sizing_function(acc, 1, cnt, template, g, items, checks)
    ELSE acc

\* Lines 207-214: the positive implicit tracks.
positive_implicit_tracks(ts, cnt, autos, g) ==
    IF Len(autos) = 0
    THEN create_implicit_tracks(ts, RepeatTake(auto, cnt.positive_implicit), g)
    ELSE create_implicit_tracks(ts, CycleSkipTake(autos, 0, cnt.positive_implicit), g)

\* Lines 216-218: collapse the first and the last entry.
collapse_first_and_last(ts) ==
    LET first == [ts EXCEPT ![1] = collapse(@)]
    IN  [first EXCEPT ![Len(ts)] = collapse(@)]

initialize_grid_tracks(ts, cnt, template, autos, g, items, checks) ==
    LET t0 == clear(ts) \o <<gutter(g)>>
        neg == negative_implicit_tracks(t0, cnt, autos, g)
        exp == IF neg.status # "ok" THEN [neg EXCEPT !.idx = cnt.negative_implicit]
               ELSE explicit_tracks(
                        [status |-> "ok", tracks |-> neg.tracks, idx |-> cnt.negative_implicit],
                        cnt, template, g, items, checks)
    IN  IF neg.status # "ok" THEN [status |-> neg.status, tracks |-> neg.tracks]
        ELSE IF exp.status # "ok" THEN [status |-> exp.status, tracks |-> exp.tracks]
        ELSE [status |-> "ok",
              tracks |-> collapse_first_and_last(
                             positive_implicit_tracks(exp.tracks, cnt, autos, g))]

(***************************************************************************)
(* Inputs of initialize_grid_tracks.                                       *)
(***************************************************************************)
SeqsUpTo(S, n) == UNION {[1..m -> S] : m \in 0..n}

TrackCountsSet ==
    [negative_implicit : 0..MaxImplicit, explicit : 0..MaxExplicit,
     positive_implicit : 0..MaxImplicit]

TemplateEntries ==
    {Single(minmax(Fixed(Points(100)), Flex(2))),
     repeat("AutoFill", <<points(40)>>), repeat("AutoFit", <<points(40), points(20)>>),
     repeat("AutoFit", <<>>)}

Templates == SeqsUpTo(TemplateEntries, MaxTemplateLen)

\* grid-auto-tracks lists: the first n entries of auto, 100px, 40px, auto, ...
AutoPalette == <<auto, points(100), points(40)>>
AutoTrackLists == {CycleSkipTake(AutoPalette, 0, n) : n \in 0..MaxAutoLen}

Gaps == {Points(0), Points(20)}

\* track_has_items: true of no track, or of the even-indexed ones.
MaxIndex == MaxExplicit + (2 * MaxImplicit)
ItemSets == {{}, {i \in 0..MaxIndex : i % 2 = 0}}

\* What the caller's sequence may hold before a call: nothing, or the tracks
\* of an earlier layout.
PriorTracks == {<<>>, <<gutter(Points(20)), GridTrackNew(Auto, Flex(1)), gutter(Points(20))>>}

DefaultStyle ==
    [grid_template_columns |-> <<>>, grid_template_rows |-> <<>>,
     size |-> [width |-> None, height |-> None],
     min_size |-> [width |-> None, height |-> None],
     max_size |-> [width |-> None, height |-> None],
     padding |-> [left |-> Points(0), right |-> Points(0), top |-> Points(0), bottom |-> Points(0)],
     border |-> [left |-> Points(0), right |-> Points(0), top |-> Points(0), bottom |-> Points(0)],
     gap |-> [width |-> Points(0), height |-> Points(0)]]

NoResult == [status |-> "none", value |-> 0]

InitTracks ==
    /\ overflow_checks \in BOOLEAN
    /\ tracks \in PriorTracks
    /\ counts \in TrackCountsSet
    /\ track_template \in Templates
    /\ auto_tracks \in AutoTrackLists
    /\ gap \in Gaps
    /\ has_items \in ItemSets
    /\ call = "idle"
    /\ style = DefaultStyle
    /\ axis = "Horizontal"
    /\ result = NoResult

\* One call of initialize_grid_tracks on the caller's sequence; a relayout
\* calls it again with the same inputs.
InitializeGridTracks ==
    /\ call # "panicked"
    /\ LET out == initialize_grid_tracks(tracks, counts, track_template, auto_tracks,
                                         gap, has_items, overflow_checks)
       IN  /\ out.status # "too_long"
           /\ tracks' = out.tracks
           /\ call' = IF out.status # "ok" THEN "panicked"
                      ELSE IF call = "idle" THEN "done" ELSE "redone"
    /\ UNCHANGED <<overflow_checks, counts, track_template, auto_tracks, gap, has_items>>
    /\ UNCHANGED sizeVars

NextTracks == InitializeGridTracks

SpecTracks == InitTracks /\ [][NextTracks]_vars

(***************************************************************************)
(* compute_explicit_grid_size_in_axis. An outcome is [status, value]:      *)
(* status "returned" or "panicked".                                        *)
(***************************************************************************)
ReturnedValue(n) == [status |-> "returned", value |-> n]
Panicked == [status |-> "panicked", value |-> 0]

\* Style::grid_template_tracks(axis)
grid_template_tracks(st, ax) ==
    IF ax = "Horizontal" THEN st.grid_template_columns ELSE st.grid_template_rows

\* Size<T>::get_abs(axis)
get_abs(size, ax) == IF ax = "Horizontal" THEN size.width ELSE size.height

\* Rect<LengthPercentage>::resolve_or_zero(context).grid_axis_sum(axis)
grid_axis_sum(rect, context, ax) ==
    IF ax = "Horizontal"
    THEN resolve_or_zero(rect.left, context) + resolve_or_zero(rect.right, context)
    ELSE resolve_or_zero(rect.top, context) + resolve_or_zero(rect.bottom, context)

\* Option<f32>::maybe_min(Option<f32>)
maybe_min(a, b) ==
    IF a.some /\ b.some THEN Some(Min2(a.v, b.v)) ELSE IF a.some THEN a ELSE None

\* Option::or
or(a, b) == IF a.some THEN a ELSE b

template_is_valid_AtMostOneRepeat(auto_repetition_count, all_track_defs_have_fixed_component) ==
    auto_repetition_count <= 1

\* Lines 31-32.
template_is_valid(auto_repetition_count, all_track_defs_have_fixed_component) ==
    \/ auto_repetition_count = 0
    \/ (auto_repetition_count = 1 /\ all_track_defs_have_fixed_component)

\* Lines 24-29.
all_track_defs_have_fixed_component(template) ==
    \A k \in 1..Len(template) :
        \A j \in 1..Len(template[k].tracks) : has_fixed_component(template[k].tracks[j])

\* Lines 46-52: the group of the first AutoRepeat entry.
repetition_definition(template) ==
    template[CHOOSE k \in 1..Len(template) :
                 /\ is_auto_repetition(template[k])
                 /\ \A h \in 1..(k - 1) : ~is_auto_repetition(template[h])].tracks

\* Lines 88-92, before the unwrap: both candidates are read from the max
\* track sizing function.
track_definite_value(sizing_function, parent_size) ==
    LET max_size == definite_value(sizing_function.max, parent_size)
        min_size == definite_value(sizing_function.max, parent_size)
    IN  IF max_size.some
        THEN Some(IF min_size.some THEN Min2(max_size.v, min_size.v) ELSE max_size.v)
        ELSE min_size

\* The f32 sum of track_definite_value over sfs; None when an unwrap panics.
RECURSIVE used_space(_, _)
used_space(sfs, parent_size) ==
    IF Len(sfs) = 0 THEN Some(0)
    ELSE LET head == track_definite_value(Head(sfs), parent_size)
             rest == used_space(Tail(sfs), parent_size)
         IN  IF head.some /\ rest.some THEN Some(head.v + rest.v) ELSE None

\* Lines 94-100: the Single entries of the template, AutoRepeat counting 0.0.
SingleTracks(template) ==
    LET singles == {k \in 1..Len(template) : ~is_auto_repetition(template[k])}
        RECURSIVE collect(_)
        collect(k) == IF k > Len(template) THEN <<>>
                      ELSE IF k \in singles THEN <<template[k].tracks[1]>> \o collect(k + 1)
                      ELSE collect(k + 1)
    IN  collect(1)

additional_repetitions_AlwaysCeil(remaining, per_repetition_used_space, size_is_maximum) ==
    FloatQuotientAsU16(remaining, per_repetition_used_space, TRUE)

additional_repetitions_AlwaysFloor(remaining, per_repetition_used_space, size_is_maximum) ==
    FloatQuotientAsU16(remaining, per_repetition_used_space, FALSE)

\* Lines 126-136: the repetitions beyond the first, as a u16.
additional_repetitions(remaining, per_repetition_used_space, size_is_maximum) ==
    FloatQuotientAsU16(remaining, per_repetition_used_space, ~size_is_maximum)

\* A u16 result: a panic on overflow in a build with overflow checks, the
\* wrapped value otherwise.
U16Result(x, checks) ==
    IF U16Overflows(x) /\ checks THEN Panicked ELSE ReturnedValue(U16Wrap(x))

\* Lines 81-139.
num_repetitions(st, ax, template, inner_size, is_maximum, non_repeating_track_count, repetition_track_count, checks) ==
    IF ~inner_size.some THEN ReturnedValue(1)
    ELSE LET inner == inner_size.v
             parent_size == Some(inner)
             non_repeating_track_used_space == used_space(SingleTracks(template), parent_size)
             gap_size == resolve_or_zero(get_abs(st.gap, ax), Some(inner))
             per_repetition_track_used_space ==
                 used_space(repetition_definition(template), parent_size)
         IN  IF ~non_repeating_track_used_space.some \/ ~per_repetition_track_used_space.some
             THEN Panicked   \* Option::unwrap on None, line 91
             ELSE LET first_repetition_and_non_repeating_tracks_used_space ==
                          non_repeating_track_used_space.v + per_repetition_track_used_space.v
                          + (Max2(non_repeating_track_count + repetition_track_count - 1, 0)
                             * gap_size)
                      per_repetition_gap_used_space ==
                          Len(repetition_definition(template)) * gap_size
                      per_repetition_used_space ==
                          per_repetition_track_used_space.v + per_repetition_gap_used_space
                  IN  IF first_repetition_and_non_repeating_tracks_used_space > inner
                      THEN ReturnedValue(1)
                      ELSE U16Result(
                               additional_repetitions(
                                   inner - first_repetition_and_non_repeating_tracks_used_space,
                                   per_repetition_used_space, is_maximum) + 1,
                               checks)

\* Lines 68-72.
outer_container_size(st, ax) ==
    or(or(maybe_min(get_abs(st.size, ax), get_abs(st.max_size, ax)), get_abs(st.max_size, ax)),
       get_abs(st.min_size, ax))

\* Lines 73-77.
inner_container_size(st, ax) ==
    LET outer == outer_container_size(st, ax)
    IN  IF outer.some
        THEN Some(outer.v - grid_axis_sum(st.padding, outer, ax)
                          - grid_axis_sum(st.border, outer, ax))
        ELSE None

\* Line 78.
size_is_maximum(st, ax) == get_abs(st.size, ax).some \/ get_abs(st.max_size, ax).some

compute_explicit_grid_size_in_axis(st, ax, checks) ==
    LET template == grid_template_tracks(st, ax)
        auto_repetition_count ==
            U16Wrap(Cardinality({k \in 1..Len(template) : is_auto_repetition(template[k])}))
        non_repeating_track_count == U16Wrap(Len(template)) - auto_repetition_count
    IN  IF Len(template) = 0 THEN ReturnedValue(0)
        ELSE IF ~template_is_valid(auto_repetition_count,
                                   all_track_defs_have_fixed_component(template))
        THEN ReturnedValue(0)
        ELSE IF auto_repetition_count = 0 THEN ReturnedValue(U16Wrap(Len(template)))
        ELSE LET repetition_track_count == U16Wrap(Len(repetition_definition(template)))
             IN  IF repetition_track_count = 0 THEN ReturnedValue(0)
                 ELSE LET reps == num_repetitions(st, ax, template, inner_container_size(st, ax),
                                                  size_is_maximum(st, ax),
                                                  non_repeating_track_count,
                                                  repetition_track_count, checks)
                          product == U16Result(repetition_track_count * reps.value, checks)
                      IN  IF reps.status = "panicked" \/ product.status = "panicked"
                          THEN Panicked
                          ELSE U16Result(non_repeating_track_count + product.value, checks)

(***************************************************************************)
(* Inputs of compute_explicit_grid_size_in_axis.                           *)
(***************************************************************************)
SizeTemplateEntries ==
    {Single(points(20)), Single(minmax(Fixed(Points(40)), Auto)), Single(auto),
     repeat("AutoFill", <<points(40)>>), repeat("AutoFit", <<points(40), points(20)>>),
     repeat("AutoFill", <<points(0)>>), repeat("AutoFill", <<flex(1)>>),
     repeat("AutoFill", <<>>)}

SizeTemplates == SeqsUpTo(SizeTemplateEntries, MaxTemplateLen)

Sizes == {None, Some(0), Some(120), Some(140)}
MinSizes == {None, Some(120), Some(140)}
MaxSizes == {None, Some(100)}
\* Padding and border, each the same on both edges of the axis.
BoxEdges ==
    {[padding |-> Points(0), border |-> Points(0)],
     [padding |-> Points(10), border |-> Points(0)],
     [padding |-> Points(10), border |-> Percent(25)]}

\* The style whose fields in axis ax are the given ones; the other axis keeps
\* Style::default().
StyleInAxis(ax, template, size, min_size, max_size, pad, bord, g) ==
    IF ax = "Horizontal"
    THEN [DefaultStyle EXCEPT !.grid_template_columns = template,
                              !.size.width = size, !.min_size.width = min_size,
                              !.max_size.width = max_size,
                              !.padding.left = pad, !.padding.right = pad,
                              !.border.left = bord, !.border.right = bord,
                              !.gap.width = g]
    ELSE [DefaultStyle EXCEPT !.grid_template_rows = template,
                              !.size.height = size, !.min_size.height = min_size,
                              !.max_size.height = max_size,
                              !.padding.top = pad, !.padding.bottom = pad,
                              !.border.top = bord, !.border.bottom = bord,
                              !.gap.height = g]

Styles(ax) ==
    {StyleInAxis(ax, t, s, lo, hi, e.padding, e.border, g) :
        t \in SizeTemplates, s \in Sizes, lo \in MinSizes, hi \in MaxSizes,
        e \in BoxEdges, g \in Gaps}

Init ==
    /\ overflow_checks \in BOOLEAN
    /\ axis \in {"Horizontal", "Vertical"}
    /\ style \in Styles(axis)
    /\ result = NoResult
    /\ tracks = <<>>
    /\ counts = [negative_implicit |-> 0, explicit |-> 0, positive_implicit |-> 0]
    /\ track_template = <<>>
    /\ auto_tracks = <<>>
    /\ gap = Points(0)
    /\ has_items = {}
    /\ call = "idle"

\* The layout pass calls compute_explicit_grid_size_in_axis on the style.
ComputeExplicitGridSizeInAxis ==
    /\ result.status = "none"
    /\ result' = compute_explicit_grid_size_in_axis(style, axis, overflow_checks)
    /\ UNCHANGED <<overflow_checks, style, axis>>
    /\ UNCHANGED tracksVars

\* The same style with the box-size field f of the axis set to v.
WithBoxSize(st, ax, f, v) ==
    IF ax = "Horizontal"
    THEN CASE f = "size" -> [st EXCEPT !.size.width = v]
           [] f = "min_size" -> [st EXCEPT !.min_size.width = v]
           [] f = "max_size" -> [st EXCEPT !.max_size.width = v]
    ELSE CASE f = "size" -> [st EXCEPT !.size.height = v]
           [] f = "min_size" -> [st EXCEPT !.min_size.height = v]
           [] f = "max_size" -> [st EXCEPT !.max_size.height = v]

BoxSize(st, ax, f) ==
    CASE f = "size" -> get_abs(st.size, ax)
      [] f = "min_size" -> get_abs(st.min_size, ax)
      [] f = "max_size" -> get_abs(st.max_size, ax)

BoxSizeValues(f) ==
    CASE f = "size" -> Sizes
      [] f = "min_size" -> MinSizes
      [] f = "max_size" -> MaxSizes \cup {Some(140)}

\* A relayout: one definite box size of the container in the axis changes to
\* another definite value and compute_explicit_grid_size_in_axis runs on the
\* new style.
Relayout ==
    /\ result.status = "returned"
    /\ \E f \in {"size", "min_size", "max_size"} :
         \E v \in BoxSizeValues(f) :
            /\ v.some
            /\ BoxSize(style, axis, f).some
            /\ v # BoxSize(style, axis, f)
            /\ style' = WithBoxSize(style, axis, f, v)
    /\ result' = compute_explicit_grid_size_in_axis(style', axis, overflow_checks)
    /\ UNCHANGED <<overflow_checks, axis>>
    /\ UNCHANGED tracksVars

Next == ComputeExplicitGridSizeInAxis \/ Relayout

Spec == Init /\ [][Next]_vars

(***************************************************************************)
(* Claims about compute_explicit_grid_size_in_axis, checked under Spec.    *)
(***************************************************************************)
Called == result.status # "none"

Template == grid_template_tracks(style, axis)

RepeatCount == Cardinality({k \in 1..Len(Template) : is_auto_repetition(Template[k])})

\* The template is valid, has one AutoRepeat and its group is not empty.
ValidRepeat ==
    /\ RepeatCount = 1
    /\ all_track_defs_have_fixed_component(Template)
    /\ Len(repetition_definition(Template)) > 0

Group == repetition_definition(Template)
NonRepeatingCount == Len(Template) - 1
Inner == inner_container_size(style, axis)
GapSize == resolve_or_zero(get_abs(style.gap, axis), Inner)

\* The definite space of a track: the definite value of its max track sizing
\* function (section 4.1 of the specification: the reference behaviour).
HasDefiniteSpace(sf) == definite_value(sf.max, Inner).some
DefiniteSpace(sf) == definite_value(sf.max, Inner).v

RECURSIVE SpaceOf(_)
SpaceOf(sfs) == IF Len(sfs) = 0 THEN 0 ELSE DefiniteSpace(Head(sfs)) + SpaceOf(Tail(sfs))

AllTracksDefinite ==
    \A k \in 1..Len(Template) :
        \A j \in 1..Len(Template[k].tracks) : HasDefiniteSpace(Template[k].tracks[j])

\* The space r repetitions take: the non-repeating tracks, r groups and a gap
\* between every two tracks.
SpaceUsed(r) ==
    SpaceOf(SingleTracks(Template)) + (r * SpaceOf(Group))
    + ((NonRepeatingCount + (r * Len(Group)) - 1) * GapSize)

\* The cost of one more repetition: its tracks and as many gaps.
RepetitionCost == SpaceOf(Group) + (Len(Group) * GapSize)

\* With a positive cost no count above Inner + 1 fits or is needed.
RepetitionRange == 1..(Max2(Inner.v, 0) + 1)

MaxOf(S) == CHOOSE x \in S : \A y \in S : y <= x
MinOf(S) == CHOOSE x \in S : \A y \in S : x <= y

\* The largest count that does not overflow the content box, 1 if none.
LargestFit ==
    LET fits == {r \in RepetitionRange : SpaceUsed(r) <= Inner.v}
    IN  IF fits = {} THEN 1 ELSE MaxOf(fits)

\* The smallest count that reaches the content box.
SmallestReach == MinOf({r \in RepetitionRange : SpaceUsed(r) >= Inner.v})

ExactFit == \E r \in RepetitionRange : SpaceUsed(r) = Inner.v

MaximumGoverned == Inner.some /\ size_is_maximum(style, axis)
MinimumGoverned == Inner.some /\ ~size_is_maximum(style, axis)

\* The style with the min-size of the axis made its preferred size: the same
\* content box, maximum-governed.
MaximumGovernedTwin ==
    WithBoxSize(WithBoxSize(style, axis, "size", get_abs(style.min_size, axis)),
                axis, "min_size", None)

TwinResult == compute_explicit_grid_size_in_axis(MaximumGovernedTwin, axis, overflow_checks)

\* C4 as stated: compute_explicit_grid_size_in_axis never aborts, whatever the
\* axis and the style.
C4_NeverFails == result.status # "panicked"

\* C5: an empty template, a template with more than one AutoRepeat, a template
\* with one AutoRepeat and a sizing function without fixed component, and a
\* template whose sole AutoRepeat has an empty group all yield 0.
C5_InvalidTemplateYieldsZero ==
    (/\ Called
     /\ \/ Len(Template) = 0
        \/ RepeatCount > 1
        \/ RepeatCount = 1 /\ ~all_track_defs_have_fixed_component(Template)
        \/ RepeatCount = 1 /\ Len(repetition_definition(Template)) = 0)
    => result = ReturnedValue(0)

C5_Witness ==
    /\ Called
    /\ RepeatCount = 1
    /\ Len(Template) = 2
    /\ ~all_track_defs_have_fixed_component(Template)
    /\ Len(repetition_definition(Template)) > 0
    /\ Inner.some
    /\ result = ReturnedValue(0)

FixedSizeAutoFill(template) ==
    /\ Cardinality({k \in 1..Len(template) : is_auto_repetition(template[k])}) = 1
    /\ \A k \in 1..Len(template) :
          /\ is_auto_repetition(template[k]) =>
                 template[k].kind = "AutoFill" /\ Len(template[k].tracks) > 0
          /\ \A j \in 1..Len(template[k].tracks) :
                 /\ template[k].tracks[j].min.kind = "fixed"
                 /\ template[k].tracks[j].min.unit = "points"
                 /\ template[k].tracks[j].max = template[k].tracks[j].min

\* The step changes nothing of the style but the definite box size f of the
\* axis, and does not shrink it.
GrowsOnly(f) ==
    /\ BoxSize(style, axis, f).some
    /\ BoxSize(style', axis, f).some
    /\ BoxSize(style, axis, f).v <= BoxSize(style', axis, f).v
    /\ style' = WithBoxSize(style, axis, f, BoxSize(style', axis, f))

\* C8 as stated: for an AutoFill template with fixed-size repeated tracks the
\* count does not decrease when only the definite container size grows.
C8_MonotoneInContainerSize ==
    [][(/\ result.status = "returned"
        /\ result'.status = "returned"
        /\ axis' = axis
        /\ FixedSizeAutoFill(Template)
        /\ \E f \in {"size", "min_size", "max_size"} : GrowsOnly(f))
       => result.value <= result'.value]_vars

\* C9 as stated: with a valid template that has a repetition the call returns
\* at least the length of the repeated group, whatever the container size and
\* also when a repetition costs nothing.
C9_AtLeastOneRepetition ==
    (Called /\ ValidRepeat /\ AllTracksDefinite)
    => /\ result.status = "returned"
       /\ result.value >= Len(Group)

(***************************************************************************)
(* Claims about initialize_grid_tracks, checked under SpecTracks.          *)
(***************************************************************************)
Returned == call \in {"done", "redone"}

TotalTracks == counts.negative_implicit + counts.explicit + counts.positive_implicit

AutoRepeatCount(template) ==
    Cardinality({k \in 1..Len(template) : is_auto_repetition(template[k])})

\* counts.explicit is a count the template can stand for: none, one per entry
\* of a template without AutoRepeat, or the entries around a sole AutoRepeat
\* plus what its (non-empty) group expands to.
ExplicitFitsTemplate ==
    \/ counts.explicit = 0
    \/ AutoRepeatCount(track_template) = 0 /\ counts.explicit = Len(track_template)
    \/ /\ AutoRepeatCount(track_template) = 1
       /\ counts.explicit >= Len(track_template) - 1
       /\ \A k \in 1..Len(track_template) :
              is_auto_repetition(track_template[k]) => Len(track_template[k].tracks) > 0

\* C1 as stated: whatever the counts and the template, the sequence a call
\* produces has length 2 * (negative_implicit + explicit + positive_implicit) + 1.
C1_LengthForAllCounts == Returned => Len(tracks) = (2 * TotalTracks) + 1

\* C1 amended: when counts.explicit is 0, or the length of a template without
\* AutoRepeat, or at least the template length minus one for a template with
\* exactly one AutoRepeat whose group is not empty, the sequence a call
\* produces has length 2 * (negative_implicit + explicit + positive_implicit) + 1.
C1_LengthWhenExplicitFits ==
    (Returned /\ ExplicitFitsTemplate) => Len(tracks) = (2 * TotalTracks) + 1

C1_Witness ==
    /\ Returned
    /\ ExplicitFitsTemplate
    /\ AutoRepeatCount(track_template) = 1
    /\ Len(track_template) = 2
    /\ counts.explicit = 2
    /\ counts.negative_implicit > 0
    /\ counts.positive_implicit > 0
    /\ Len(tracks) = 2 * TotalTracks + 1

\* C2: in the sequence a call leaves, every even index (0-based) holds a
\* Gutter and every odd index a Track, and the last entry is a Gutter.
C2_Alternation ==
    call # "idle" =>
        /\ Len(tracks) % 2 = 1
        /\ \A i \in 1..Len(tracks) :
               tracks[i].kind = IF (i - 1) % 2 = 0 THEN "Gutter" ELSE "Track"

C2_Witness ==
    /\ Returned
    /\ counts.negative_implicit > 0
    /\ counts.positive_implicit > 0
    /\ counts.explicit > 0
    /\ Len(tracks) >= 7
    /\ \E k \in 1..Len(track_template) : is_auto_repetition(track_template[k])

\* C3 as stated: for every input combination the call completes and the first
\* and the last entry of the sequence are collapsed.
C3_CompletesWithCollapsedEnds ==
    call # "idle" =>
        /\ Returned
        /\ tracks[1].is_collapsed
        /\ tracks[Len(tracks)].is_collapsed

\* C10: a call leaves the sequence it would leave on an empty one, whatever
\* the sequence held before, and a second call with the same inputs on the
\* first call's output leaves that output unchanged.
C10_IdempotentUnderReuse ==
    [][(call' \in {"done", "redone"}) =>
          /\ tracks' = initialize_grid_tracks(<<>>, counts, track_template, auto_tracks,
                                              gap, has_items, overflow_checks).tracks
          /\ (call = "done" => tracks' = tracks)]_vars

C10_Witness ==
    /\ call = "redone"
    /\ Len(tracks) >= 5
    /\ counts.explicit > 0

\* The k-th negative implicit track counted outward from the explicit region
\* (k = 1 is next to it): entry 2 * (negative_implicit - k + 1) of the sequence.
NegativeImplicitTrack(k) == tracks[2 * (counts.negative_implicit - k + 1)]

\* The entry the auto-tracks cycle holds k places before its start.
CycleBackwards(k) ==
    auto_tracks[((Len(auto_tracks) - (k % Len(auto_tracks))) % Len(auto_tracks)) + 1]

\* C11 as stated: with a non-empty auto-tracks list of length L and
\* negative_implicit >= 1, the k-th negative implicit track counted outward
\* from the explicit region has the sizing functions of auto_tracks[(-k) mod L],
\* so the one next to the explicit region has those of the last entry.
C11_NegativeImplicitContinuesCycleBackwards ==
    (Returned /\ Len(auto_tracks) >= 1 /\ counts.negative_implicit >= 1)
    => \A k \in 1..counts.negative_implicit :
           /\ NegativeImplicitTrack(k).min_track_sizing_function
                  = min_sizing_function(CycleBackwards(k))
           /\ NegativeImplicitTrack(k).max_track_sizing_function
                  = max_sizing_function(CycleBackwards(k))

\* The Track entries of the sequence, by absolute index (gutters not counted).
TrackCount == (Len(tracks) - 1) \div 2
TrackAt(i) == tracks[(2 * i) + 2]
GutterAfter(i) == tracks[(2 * i) + 3]

\* What each explicit track was generated from, in sequence order: "Single",
\* "AutoFill" or "AutoFit"; an AutoRepeat entry stands for
\* explicit - (template length - 1) tracks of its group.
RECURSIVE ExplicitOrigins(_)
ExplicitOrigins(k) ==
    IF k > Len(track_template) THEN <<>>
    ELSE LET def == track_template[k]
             n == IF def.tag = "Single" THEN 1
                  ELSE IF Len(def.tracks) = 0 THEN 0
                  ELSE (counts.explicit - (Len(track_template) - 1)) % U16_MOD
         IN  RepeatTake(IF def.tag = "Single" THEN "Single" ELSE def.kind, n)
             \o ExplicitOrigins(k + 1)

Origins == IF counts.explicit > 0 THEN ExplicitOrigins(1) ELSE <<>>

OriginOf(i) ==
    IF i < counts.negative_implicit THEN "NegativeImplicit"
    ELSE IF i - counts.negative_implicit < Len(Origins)
    THEN Origins[i - counts.negative_implicit + 1]
    ELSE "PositiveImplicit"

\* C12: in the sequence a call produces, the Track at absolute index i (the
\* number of Tracks before it, negative_implicit for the first explicit one)
\* is collapsed if and only if it was generated from an AutoFit entry and
\* has_items(i) is false, and the gutter after a collapsed Track is collapsed;
\* so tracks from Single entries, AutoFill repetitions and implicit tracks are
\* never collapsed.
C12_CollapsedIffAutoFitWithoutItems ==
    Returned =>
        \A i \in 0..(TrackCount - 1) :
            /\ TrackAt(i).is_collapsed <=> (OriginOf(i) = "AutoFit" /\ ~(i \in has_items))
            /\ TrackAt(i).is_collapsed => GutterAfter(i).is_collapsed

C12_Witness ==
    /\ Returned
    /\ counts.negative_implicit = 1
    /\ counts.positive_implicit >= 1
    /\ \E i \in 0..(TrackCount - 1) :
           /\ OriginOf(i) = "AutoFit"
           /\ TrackAt(i).is_collapsed
           /\ GutterAfter(i).is_collapsed
           /\ (2 * i) + 3 < Len(tracks)
    /\ \E i \in 0..(TrackCount - 1) : OriginOf(i) = "AutoFit" /\ ~TrackAt(i).is_collapsed
    /\ \E i \in 0..(TrackCount - 1) : OriginOf(i) = "PositiveImplicit" /\ ~(i \in has_items)

(***************************************************************************)
(* The two components composed. The caller of both (the grid layout pass)  *)
(* calls compute_explicit_grid_size_in_axis on the style, learns the       *)
(* implicit counts from item placement and then calls                      *)
(* initialize_grid_tracks with the template and the gap of the same style  *)
(* and counts.explicit = the value returned.                               *)
(***************************************************************************)
GridTemplateEntries ==
    {Single(points(20)), repeat("AutoFill", <<points(40)>>),
     repeat("AutoFit", <<points(40), points(20)>>), repeat("AutoFill", <<points(0)>>)}

GridTemplates == SeqsUpTo(GridTemplateEntries, MaxTemplateLen)

GridStyles(ax) ==
    {StyleInAxis(ax, t, s, None, None, Points(0), Points(0), g) :
        t \in GridTemplates, s \in Sizes, g \in Gaps}

InitGrid ==
    /\ overflow_checks \in BOOLEAN
    /\ axis \in {"Horizontal", "Vertical"}
    /\ style \in GridStyles(axis)
    /\ result = NoResult
    /\ tracks = <<>>
    /\ counts = [negative_implicit |-> 0, explicit |-> 0, positive_implicit |-> 0]
    /\ track_template = <<>>
    /\ auto_tracks = <<>>
    /\ gap = Points(0)
    /\ has_items = {}
    /\ call = "idle"

\* The layout pass, after the resolver returned and item placement gave the
\* implicit counts, the auto-tracks list and the occupied tracks: the call of
\* initialize_grid_tracks for the axis.
InitializeGridTracksInAxis ==
    /\ result.status = "returned"
    /\ call = "idle"
    /\ \E neg \in 0..MaxImplicit, pos \in 0..MaxImplicit :
         counts' = [negative_implicit |-> neg, explicit |-> result.value,
                    positive_implicit |-> pos]
    /\ track_template' = grid_template_tracks(style, axis)
    /\ auto_tracks' \in AutoTrackLists
    /\ gap' = get_abs(style.gap, axis)
    /\ has_items' \in ItemSets
    /\ LET out == initialize_grid_tracks(tracks, counts', track_template', auto_tracks',
                                         gap', has_items', overflow_checks)
       IN  /\ out.status # "too_long"
           /\ tracks' = out.tracks
           /\ call' = IF out.status # "ok" THEN "panicked" ELSE "done"
    /\ UNCHANGED <<overflow_checks, style, axis, result>>

NextGrid == ComputeExplicitGridSizeInAxis \/ InitializeGridTracksInAxis

SpecGrid == InitGrid /\ [][NextGrid]_vars

(***************************************************************************)
(* The claim about the composition, checked under SpecGrid.                *)
(***************************************************************************)
\* initialize_grid_tracks was called with the resolver's value for the
\* template of the style, and produced a sequence.
Composed ==
    /\ result.status = "returned"
    /\ Returned
    /\ track_template = Template
    /\ counts.explicit = result.value

\* The tracks between the negative and the positive implicit ones.
ExplicitEmitted == TrackCount - counts.negative_implicit - counts.positive_implicit
ExplicitTrack(j) == TrackAt(counts.negative_implicit + j - 1)

\* The sizing functions the template stands for when its AutoRepeat entries
\* expand to r repetitions of their group.
RECURSIVE ExpansionFrom(_, _)
ExpansionFrom(k, r) ==
    IF k > Len(track_template) THEN <<>>
    ELSE (IF track_template[k].tag = "Single" THEN track_template[k].tracks
          ELSE CycleSkipTake(track_template[k].tracks, 0, r * Len(track_template[k].tracks)))
         \o ExpansionFrom(k + 1, r)

\* The explicit tracks are that expansion (a collapsed track has lost its
\* sizing functions).
ExpandsTo(r) ==
    /\ ExplicitEmitted = Len(ExpansionFrom(1, r))
    /\ \A j \in 1..ExplicitEmitted :
           ~ExplicitTrack(j).is_collapsed =>
               /\ ExplicitTrack(j).min_track_sizing_function
                      = min_sizing_function(ExpansionFrom(1, r)[j])
               /\ ExplicitTrack(j).max_track_sizing_function
                      = max_sizing_function(ExpansionFrom(1, r)[j])

\* C13 as stated: when counts.explicit is the value the resolver returns for
\* the same template, the sequence holds exactly counts.explicit explicit
\* tracks between the negative and the positive implicit ones (none for an
\* invalid or empty template), the sole AutoRepeat of a valid template expands
\* to a whole number, at least 1, of repetitions of its group, and
\* counts.explicit - (template length - 1) is not negative.
C13_ComposedExplicitRegion ==
    Composed =>
        /\ ExplicitEmitted = counts.explicit
        /\ ValidRepeat => \E r \in 1..counts.explicit : ExpandsTo(r)
        /\ (counts.explicit > 0 /\ RepeatCount >= 1) =>
               auto_repeated_track_count(counts, track_template) >= 0

====
